---- MODULE Spec2Model ----
(***************************************************************************)
(* The research pipeline of ai_tool_researcher: Workflow.run drives the    *)
(* three graph nodes extract_tools -> research -> analyze over one         *)
(* ResearchState, calling FirecrawlService (search, scrape) and the chat   *)
(* model (free-form and structured completion).  Every external call is    *)
(* one step whose outcome is chosen from a small set.                      *)
(***************************************************************************)
EXTENDS Integers, Sequences, FiniteSets, TLC

(***************************************************************************)
(* Bounds of the model and constants of the program.                       *)
(***************************************************************************)
\* longest list of tool names the discovery completion answers with
MaxNames == 5
\* search_companies(query, num_results = 3)
DefaultNumResults == 3
\* search_companies(state.query, num_results=4)
FallbackNumResults == 4
\* extracted_tools[:4]
MaxTools == 4
\* search_companies(tool_name + " official site", num_results=1)
SiteNumResults == 1
\* scraped.markdown[:1500]
ContentPrefix == 1500

Queries == {"", "stripe"}

Min(a, b) == IF a <= b THEN a ELSE b

(***************************************************************************)
(* Python values.  None, the list [] and the SDK's response objects are    *)
(* tagged records; a dict is a function whose DOMAIN is its set of keys.   *)
(***************************************************************************)
None == "py:None"
PyNone == [kind |-> "None"]
PyList(items) == [kind |-> "list", items |-> items]

\* bool(v): None and the empty list are falsy, an SDK response object (a
\* pydantic model, no __bool__ / __len__) is always truthy
Truthy(v) ==
    CASE v.kind = "None" -> FALSE
      [] v.kind = "list" -> v.items # <<>>
      [] OTHER -> TRUE

\* v.data: only the SDK's search response has the attribute
HasData(v) == v.kind = "SearchResponse"

\* dict.get(key, default)
Get(d, key, default) == IF key \in DOMAIN d THEN d[key] ELSE default

(***************************************************************************)
(* models.py                                                               *)
(***************************************************************************)
PricingTags == {"Free", "Freemium", "Paid", "Enterprise", "Unknown"}

CompanyAnalysisFields ==
    {"pricing_model", "is_open_source", "tech_stack", "description",
     "api_available", "language_support", "integration_capabilities"}

\* CompanyInfo(name=, description=, website=, tech_stack=[], competitors=[])
CompanyInfo(name, description, website) ==
    [name |-> name,
     description |-> description,
     website |-> website,
     pricing_model |-> None,
     is_open_source |-> None,
     tech_stack |-> <<>>,
     competitors |-> <<>>,
     api_available |-> None,
     language_support |-> <<>>,
     integration_capabilities |-> <<>>,
     developer_experience_rating |-> None]

ResearchStateFields ==
    {"query", "extracted_tools", "companies", "search_results", "analysis"}

\* a ResearchState whose analysis defaults to the empty string
ResearchState_analysis_empty(values) ==
    [query |-> values.query,
     extracted_tools |-> Get(values, "extracted_tools", <<>>),
     companies |-> Get(values, "companies", <<>>),
     search_results |-> Get(values, "search_results", <<>>),
     analysis |-> Get(values, "analysis", "")]

\* ResearchState(**values): the given fields, the declared default elsewhere
ResearchState(values) ==
    [query |-> values.query,
     extracted_tools |-> Get(values, "extracted_tools", <<>>),
     companies |-> Get(values, "companies", <<>>),
     search_results |-> Get(values, "search_results", <<>>),
     analysis |-> Get(values, "analysis", None)]

(***************************************************************************)
(* Strings the code splits are sequences of one-character strings.         *)
(***************************************************************************)
Whitespace == {" ", "\n", "\t"}

RECURSIVE LStrip(_)
LStrip(s) ==
    IF s # <<>> /\ Head(s) \in Whitespace THEN LStrip(Tail(s)) ELSE s

RECURSIVE RStrip(_)
RStrip(s) ==
    IF s # <<>> /\ s[Len(s)] \in Whitespace
    THEN RStrip(SubSeq(s, 1, Len(s) - 1))
    ELSE s

\* str.strip()
Strip(s) == RStrip(LStrip(s))

\* str.split("\n"): always at least one piece
RECURSIVE SplitNL(_, _)
SplitNL(s, cur) ==
    IF s = <<>> THEN <<cur>>
    ELSE IF Head(s) = "\n" THEN <<cur>> \o SplitNL(Tail(s), <<>>)
    ELSE SplitNL(Tail(s), Append(cur, Head(s)))

\* the characters as one string
RECURSIVE Str(_)
Str(s) == IF s = <<>> THEN "" ELSE Head(s) \o Str(Tail(s))

\* [name.strip() for name in pieces if name.strip()]
RECURSIVE StripNonBlank(_)
StripNonBlank(pieces) ==
    IF pieces = <<>> THEN <<>>
    ELSE IF Strip(Head(pieces)) = <<>> THEN StripNonBlank(Tail(pieces))
    ELSE <<Str(Strip(Head(pieces)))>> \o StripNonBlank(Tail(pieces))

\* [name.strip() for name in response.content.strip().split("\n") if name.strip()]
ParseToolNames(content) == StripNonBlank(SplitNL(Strip(content), <<>>))

(***************************************************************************)
(* The external services: what one call can answer.                        *)
(***************************************************************************)
Raise == [kind |-> "raise"]

Digits == <<"1", "2", "3", "4", "5", "6", "7", "8">>

\* the j-th hit of a search: a dict with url, markdown and metadata.title,
\* or (every second hit) a dict that has only a url and an empty metadata
FullHit(j) ==
    [url |-> "https://site" \o Digits[j],
     markdown |-> "hit " \o Digits[j],
     metadata |-> [title |-> "Tool" \o Digits[j]]]

BareHit(j) == [url |-> "https://site" \o Digits[j], metadata |-> <<>>]

Hits(k, variant) ==
    [j \in 1..k |-> IF (j + variant) % 2 = 1 THEN FullHit(j) ELSE BareHit(j)]

HitVariants == {0, 1}

\* self.app.search(query=, limit=, scrape_options=): raises, or answers with
\* at most limit hits
AppSearch(gateway_query, limit) ==
    {Raise} \cup
    {[kind |-> "SearchResponse", data |-> Hits(k, v)] :
        k \in 0..limit, v \in HitVariants}

\* the text of the page at url, a sequence of characters: a short page, and
\* behind the third site a page one character longer than the prefix the
\* discovery step takes
PageText(url) ==
    LET sites == {j \in 1..Len(Digits) : "https://site" \o Digits[j] = url} IN
    IF sites = {} THEN <<"?">>
    ELSE LET j == CHOOSE n \in sites : TRUE IN
         IF j = 3 THEN [k \in 1..(ContentPrefix + 1) |-> "z"]
         ELSE <<"p", "a", "g", "e", " ", Digits[j]>>

\* self.app.scrape_url(url, formats=["markdown"])
AppScrape(url) ==
    {Raise, [kind |-> "ScrapeResponse", markdown |-> PageText(url)]}

Letters == <<"a", "b", "c", "d", "e", "f", "g", "h">>

\* the n names one per line: "a x\nb x\nc x"
RECURSIVE PlainList(_)
PlainList(n) ==
    IF n = 0 THEN <<>>
    ELSE IF n = 1 THEN <<Letters[1], " ", "x">>
    ELSE PlainList(n - 1) \o <<"\n", Letters[n], " ", "x">>

\* the same names with padding and blank lines: " \n a x \n\n b x \n\n"
RECURSIVE PaddedList(_)
PaddedList(n) ==
    IF n = 0 THEN <<" ", "\n">>
    ELSE PaddedList(n - 1) \o <<" ", Letters[n], " ", "x", " ", "\n", "\n">>

\* self.llm.invoke(messages) of the tool-extraction prompt
ExtractionCompletions ==
    {Raise} \cup
    {[kind |-> "AIMessage", content |-> PlainList(n)] : n \in 0..MaxNames} \cup
    {[kind |-> "AIMessage", content |-> PaddedList(n)] : n \in 0..MaxNames}

\* structured_llm.invoke(messages): raises, or a CompanyAnalysis (only
\* pricing_model is required, and it is any str)
GoodAnalysis ==
    [pricing_model |-> "Freemium",
     is_open_source |-> "True",
     tech_stack |-> <<"python">>,
     description |-> "a tool",
     api_available |-> "False",
     language_support |-> <<"go">>,
     integration_capabilities |-> <<"slack">>]

OddAnalysis ==
    [pricing_model |-> "Usage-based",
     is_open_source |-> None,
     tech_stack |-> <<>>,
     description |-> "",
     api_available |-> None,
     language_support |-> <<>>,
     integration_capabilities |-> <<>>]

StructuredCompletions ==
    {Raise,
     [kind |-> "CompanyAnalysis", value |-> GoodAnalysis],
     [kind |-> "CompanyAnalysis", value |-> OddAnalysis]}

\* self.llm.invoke(messages) of the recommendations prompt
RecommendationCompletions ==
    {Raise, [kind |-> "AIMessage", content |-> "use the first one"]}

(***************************************************************************)
(* firecrawl.py                                                            *)
(***************************************************************************)
\* the query search_companies sends to the gateway
GatewayQuery(query) == query \o " company pricing"

\* search_companies: the SDK's answer, [] when the call raised
search_companies(answer) ==
    IF answer.kind = "raise" THEN PyList(<<>>) ELSE answer

\* an except branch that returns an empty response instead of None
scrape_company_pages_never_none(answer) ==
    IF answer.kind = "raise"
    THEN [kind |-> "ScrapeResponse", markdown |-> <<>>]
    ELSE answer

\* scrape_company_pages: the SDK's answer, None when the call raised
scrape_company_pages(answer) ==
    IF answer.kind = "raise" THEN PyNone ELSE answer

\* what the environment holds for FIRECRAWL_API_KEY: nothing, "", a key
EnvValues == {None, "", "fc-key"}

\* os.environ("FIRECRAWL_API_KEY"): os.environ is a mapping, not a function,
\* and calling it raises TypeError whatever the environment holds
EnvironCall(value) == [raised |-> "TypeError", value |-> None]

\* FirecrawlService.__init__: how the construction ends
FirecrawlServiceInit(value) ==
    LET got == EnvironCall(value) IN
    IF got.raised # None THEN got.raised
    ELSE IF got.value \in {None, ""} THEN "ValueError"
    ELSE "constructed"

(***************************************************************************)
(* workflow.py: the pure parts of the three nodes.                         *)
(***************************************************************************)
Nodes == {"START", "extract_tools", "research", "analyze", "END"}

\* _build_graph: add_edge
Edges ==
    {<<"START", "extract_tools">>, <<"extract_tools", "research">>,
     <<"research", "analyze">>, <<"analyze", "END">>}

\* a graph whose extract_tools node is wired to analyze
Succ_skips_research(n) ==
    IF n = "extract_tools" THEN "analyze"
    ELSE CHOOSE m \in Nodes : <<n, m>> \in Edges

\* the node the compiled graph runs after n
Succ(n) == CHOOSE m \in Nodes : <<n, m>> \in Edges

\* the first step of a node's function
EntryPc(n) ==
    CASE n = "extract_tools" -> "extract_search"
      [] n = "research" -> "research_start"
      [] n = "analyze" -> "analyze_llm"
      [] OTHER -> "return"

\* an update that replaces the state by the delta and keeps only the query
Merge_replaces(st, delta) ==
    ResearchState([f \in DOMAIN delta \cup {"query"} |->
                      IF f \in DOMAIN delta THEN delta[f] ELSE st[f]])

\* the graph's state update: the keys of the returned dict overwrite
Merge(st, delta) ==
    [f \in DOMAIN st |-> IF f \in DOMAIN delta THEN delta[f] ELSE st[f]]

\* an initial state built from the article query
InitialState_of_article_query(query) ==
    ResearchState([query |-> query \o " tools comparison best alternatives"])

\* Workflow.__init__: the first statement constructs the FirecrawlService
WorkflowInit(value) == FirecrawlServiceInit(value)

\* ResearchState(query=query)
InitialState(query) == ResearchState([query |-> query])

\* s[:n]
Prefix(s, n) == SubSeq(s, 1, Min(n, Len(s)))

\* scraped.markdown[:1500] + "\n\n"
Chunk(scraped) == Prefix(scraped.markdown, ContentPrefix) \o <<"\n", "\n">>

\* f"{state.query} tools comparison best alternatives"
ArticleQuery(query) == query \o " tools comparison best alternatives"

\* _extract_tools_step, the try block: the names, [] when the call raised
ExtractedTools(answer) ==
    IF answer.kind = "raise" THEN <<>> ELSE ParseToolNames(answer.content)

\* the test inverted: if extracted_tools
NeedsFallback_inverted(extracted_tools) == extracted_tools # <<>>

\* if not extracted_tools
NeedsFallback(extracted_tools) == extracted_tools = <<>>

\* result.get("metadata", {}).get("title", "Unknown") for result in data
TitleNames(data) ==
    [j \in 1..Len(data) |->
        Get(Get(data[j], "metadata", <<>>), "title", "Unknown")]

\* the slice forgotten: every candidate is researched
FirstTools_unbounded(extracted_tools) == extracted_tools

\* extracted_tools[:4]
FirstTools(extracted_tools) ==
    SubSeq(extracted_tools, 1, Min(MaxTools, Len(extracted_tools)))

\* tool_name + " official site"
SiteQuery(tool_name) == tool_name \o " official site"

\* a base record that takes nothing from the hit
BaseCompany_without_hit(tool_name, result) == CompanyInfo(tool_name, "", "")

\* a base record named after the title of the hit
BaseCompany_named_by_hit(tool_name, result) ==
    CompanyInfo(Get(Get(result, "metadata", <<>>), "title", "Unknown"),
                Get(result, "markdown", ""), Get(result, "url", ""))

\* the base record built from the search hit
BaseCompany(tool_name, result) ==
    CompanyInfo(tool_name, Get(result, "markdown", ""), Get(result, "url", ""))

\* the default CompanyAnalysis of the except branch
FailedAnalysis ==
    [pricing_model |-> "Unknown",
     is_open_source |-> None,
     tech_stack |-> <<>>,
     description |-> "Failed",
     api_available |-> None,
     language_support |-> <<>>,
     integration_capabilities |-> <<>>]

\* an except branch that leaves the description and the pricing model unset
analyze_company_content_partial(answer) ==
    IF answer.kind = "raise"
    THEN [FailedAnalysis EXCEPT !.description = "", !.pricing_model = None]
    ELSE answer.value

\* _analyze_company_content: the model's analysis, the default when it raised
analyze_company_content(answer) ==
    IF answer.kind = "raise" THEN FailedAnalysis ELSE answer.value

\* company.<field> = analysis.<field>, the seven assignments
ApplyAnalysis(c, analysis) ==
    [c EXCEPT !.pricing_model = analysis.pricing_model,
              !.is_open_source = analysis.is_open_source,
              !.tech_stack = analysis.tech_stack,
              !.description = analysis.description,
              !.api_available = analysis.api_available,
              !.language_support = analysis.language_support,
              !.integration_capabilities = analysis.integration_capabilities]

\* a synthesis that swallows the exception and returns an empty text
analyze_step_with_default(answer) ==
    [raised |-> FALSE,
     delta |-> [analysis |->
                  IF answer.kind = "raise" THEN "" ELSE answer.content]]

\* _analyze_step: the delta, or the exception of the completion call
analyze_step(answer) ==
    IF answer.kind = "raise"
    THEN [raised |-> TRUE, delta |-> <<>>]
    ELSE [raised |-> FALSE, delta |-> [analysis |-> answer.content]]

(***************************************************************************)
(* The state of one Workflow and of its run.                               *)
(***************************************************************************)
VARIABLES
    environ,         \* FIRECRAWL_API_KEY as the constructor found it (None: unset)
    service,         \* "given": the Workflow's services were put in place;
                     \* else how FirecrawlService() ended
    query,           \* the argument of run (None before run is called)
    node,            \* the graph node being run (START before run is called)
    pc,              \* the position inside run and inside the node's function
    state,           \* the graph's ResearchState
    search_results,  \* local of _extract_tools_step and _research_tools_step
    i,               \* _extract_tools_step: index of the hit being scraped
    all_content,     \* _extract_tools_step: the context blob
    tool_names,      \* _research_tools_step: the names to research
    companies,       \* _research_tools_step: the records appended so far
    t,               \* _research_tools_step: index of the tool in progress
    company,         \* _research_tools_step: the record in progress
    content,         \* _research_tools_step: scraped.markdown
    returned,        \* what run returned (PyNone while it has not)
    error,           \* the exception that left run (None while there is none)
    calls,           \* history: the external calls of the node, in order
    events           \* history: nodes entered and deltas merged, in order

vars ==
    <<environ, service, query, node, pc, state, search_results, i, all_content, tool_names, companies,
      t, company, content, returned, error, calls, events>>

extract_locals == <<search_results, i, all_content>>
research_locals == <<tool_names, companies, t, company, content>>
outcome == <<returned, error>>

NoCompany == CompanyInfo("", "", "")

Init ==
    /\ environ = None
    /\ service = "given"
    /\ query = None
    /\ node = "START"
    /\ pc = "idle"
    /\ state = PyNone
    /\ search_results = PyNone
    /\ i = 0
    /\ all_content = <<>>
    /\ tool_names = <<>>
    /\ companies = <<>>
    /\ t = 0
    /\ company = NoCompany
    /\ content = <<>>
    /\ returned = PyNone
    /\ error = None
    /\ calls = <<>>
    /\ events = <<>>

\* one external call in the history
Call(fn, arg, limit, answer) ==
    [fn |-> fn, arg |-> arg, limit |-> limit, node |-> node, tool |-> t,
     ok |-> answer.kind # "raise",
     hits |-> IF answer.kind = "SearchResponse" THEN Len(answer.data) ELSE 0,
     data |-> IF answer.kind = "SearchResponse" THEN answer.data ELSE <<>>]

Entered(n) == [ev |-> "enter", node |-> n, delta |-> <<>>]
Merged(n, delta) == [ev |-> "merge", node |-> n, delta |-> delta]

\* an exception leaves the node's function, the graph and run
Raised(name) ==
    /\ pc' = "raised"
    /\ error' = name
    /\ UNCHANGED <<node, state, returned>>

\* the node's function returns delta: the graph merges it and goes on
Returns(delta) ==
    /\ state' = Merge(state, delta)
    /\ node' = Succ(node)
    /\ pc' = EntryPc(Succ(node))
    /\ UNCHANGED outcome

\* Workflow(): self.firecrawl = FirecrawlService() in an environment; an
\* exception of the constructor leaves no Workflow to run
Construct(value) ==
    /\ pc = "idle"
    /\ service = "given"
    /\ environ' = value
    /\ service' = WorkflowInit(value)
    /\ UNCHANGED <<query, node, pc, state, extract_locals, research_locals,
                   outcome, calls, events>>

\* run(query): initial_state = ResearchState(query=query); workflow.invoke
Run(q) ==
    /\ pc = "idle"
    /\ service \in {"given", "constructed"}
    /\ UNCHANGED <<environ, service>>
    /\ query' = q
    /\ state' = InitialState(q)
    /\ node' = Succ(node)
    /\ pc' = EntryPc(Succ(node))
    /\ UNCHANGED <<extract_locals, research_locals, outcome, calls, events>>

\* _extract_tools_step up to the loop: the article search, then
\* search_results.data
ExtractSearch ==
    /\ UNCHANGED <<query, environ, service>>
    /\ pc = "extract_search"
    /\ \E answer \in AppSearch(GatewayQuery(ArticleQuery(state.query)),
                               DefaultNumResults) :
        LET result == search_companies(answer) IN
        /\ calls' = <<Call("search_companies", ArticleQuery(state.query),
                         DefaultNumResults, answer)>>
        /\ events' = Append(events, Entered(node))
        /\ search_results' = result
        /\ all_content' = <<>>
        /\ i' = 1
        /\ IF ~HasData(result)
           THEN Raised("AttributeError")
           ELSE /\ pc' = IF result.data = <<>> THEN "extract_llm"
                         ELSE "extract_scrape"
                /\ UNCHANGED <<node, state, outcome>>
    /\ UNCHANGED research_locals

\* one turn of the loop over search_results.data; the value of
\* all_content + scraped.markdown[:1500] + "\n\n" is not assigned
ExtractScrape ==
    /\ UNCHANGED <<query, environ, service>>
    /\ pc = "extract_scrape"
    /\ LET url == Get(search_results.data[i], "url", "") IN
       \E answer \in AppScrape(url) :
        LET scraped == scrape_company_pages(answer)
            sum == IF Truthy(scraped) THEN all_content \o Chunk(scraped)
                   ELSE all_content
        IN
        /\ calls' = Append(calls, Call("scrape_company_pages", url, 0, answer))
        /\ all_content' = all_content
        /\ i' = i + 1
        /\ pc' = IF i = Len(search_results.data) THEN "extract_llm"
                 ELSE "extract_scrape"
    /\ UNCHANGED <<node, state, search_results, research_locals, outcome,
                   events>>

\* the try block: the completion and the parse, or the except branch
ExtractComplete ==
    /\ UNCHANGED <<query, environ, service>>
    /\ pc = "extract_llm"
    /\ \E answer \in ExtractionCompletions :
        LET delta == [extracted_tools |-> ExtractedTools(answer)] IN
        /\ calls' = Append(calls, Call("llm.invoke",
                                       <<state.query, all_content>>, 0, answer))
        /\ events' = Append(events, Merged(node, delta))
        /\ Returns(delta)
    /\ search_results' = PyNone
    /\ i' = 0
    /\ all_content' = <<>>
    /\ UNCHANGED research_locals

\* _research_tools_step, the else branch: the first four candidates
ResearchTake ==
    /\ UNCHANGED <<query, environ, service>>
    /\ pc = "research_start"
    /\ ~NeedsFallback(state.extracted_tools)
    /\ tool_names' = FirstTools(state.extracted_tools)
    /\ companies' = <<>>
    /\ t' = 1
    /\ pc' = "tool_loop"
    /\ events' = Append(events, Entered(node))
    /\ calls' = <<>>
    /\ UNCHANGED <<node, state, extract_locals, company, content, outcome>>

\* _research_tools_step, the if branch: the direct search of the query and
\* the names from the hits' titles
ResearchFallback ==
    /\ UNCHANGED <<query, environ, service>>
    /\ pc = "research_start"
    /\ NeedsFallback(state.extracted_tools)
    /\ \E answer \in AppSearch(GatewayQuery(state.query), FallbackNumResults) :
        LET result == search_companies(answer) IN
        /\ calls' = <<Call("search_companies", state.query,
                         FallbackNumResults, answer)>>
        /\ events' = Append(events, Entered(node))
        /\ search_results' = result
        /\ IF ~HasData(result)
           THEN /\ Raised("AttributeError")
                /\ UNCHANGED <<tool_names, companies, t>>
           ELSE /\ tool_names' = TitleNames(result.data)
                /\ companies' = <<>>
                /\ t' = 1
                /\ pc' = "tool_loop"
                /\ UNCHANGED <<node, state, outcome>>
    /\ UNCHANGED <<i, all_content, company, content>>

\* one turn of the loop over tool_names, up to the scrape: the site search,
\* the test of its result, data[0] and the base record
ToolSearch ==
    /\ UNCHANGED <<query, environ, service>>
    /\ pc = "tool_loop"
    /\ t <= Len(tool_names)
    /\ \E answer \in AppSearch(GatewayQuery(SiteQuery(tool_names[t])),
                               SiteNumResults) :
        LET result == search_companies(answer) IN
        /\ calls' = Append(calls, Call("search_companies",
                                       SiteQuery(tool_names[t]),
                                       SiteNumResults, answer))
        /\ IF ~Truthy(result)
           THEN /\ t' = t + 1
                /\ UNCHANGED <<pc, node, state, outcome, company>>
           ELSE IF result.data = <<>>
           THEN /\ Raised("IndexError")
                /\ UNCHANGED <<t, company>>
           ELSE /\ company' = BaseCompany(tool_names[t], result.data[1])
                /\ pc' = "tool_scrape"
                /\ UNCHANGED <<t, node, state, outcome>>
    /\ UNCHANGED <<extract_locals, tool_names, companies, content, events>>

\* the scrape of the site; without a page the base record is appended
ToolScrape ==
    /\ UNCHANGED <<query, environ, service>>
    /\ pc = "tool_scrape"
    /\ \E answer \in AppScrape(company.website) :
        LET scraped == scrape_company_pages(answer) IN
        /\ calls' = Append(calls, Call("scrape_company_pages",
                                       company.website, 0, answer))
        /\ IF Truthy(scraped)
           THEN /\ content' = scraped.markdown
                /\ pc' = "tool_analyze"
                /\ UNCHANGED <<companies, t, company>>
           ELSE /\ companies' = Append(companies, company)
                /\ t' = t + 1
                /\ pc' = "tool_loop"
                /\ company' = NoCompany
                /\ UNCHANGED content
    /\ UNCHANGED <<node, state, extract_locals, tool_names, outcome, events>>

\* _analyze_company_content, the seven assignments and the append
ToolAnalyze ==
    /\ UNCHANGED <<query, environ, service>>
    /\ pc = "tool_analyze"
    /\ \E answer \in StructuredCompletions :
        LET analysis == analyze_company_content(answer) IN
        /\ calls' = Append(calls, Call("structured_llm.invoke",
                                       <<company.name, content>>, 0, answer))
        /\ companies' = Append(companies, ApplyAnalysis(company, analysis))
    /\ t' = t + 1
    /\ pc' = "tool_loop"
    /\ company' = NoCompany
    /\ content' = <<>>
    /\ UNCHANGED <<node, state, extract_locals, tool_names, outcome, events>>

\* return {"companies": companies}
ResearchReturn ==
    /\ UNCHANGED <<query, environ, service>>
    /\ pc = "tool_loop"
    /\ t > Len(tool_names)
    /\ LET delta == [companies |-> companies] IN
        /\ events' = Append(events, Merged(node, delta))
        /\ Returns(delta)
    /\ search_results' = PyNone
    /\ tool_names' = <<>>
    /\ companies' = <<>>
    /\ t' = 0
    /\ UNCHANGED <<i, all_content, company, content, calls>>

\* _analyze_step: the recommendation completion, outside any try
AnalyzeStep ==
    /\ UNCHANGED <<query, environ, service>>
    /\ pc = "analyze_llm"
    /\ \E answer \in RecommendationCompletions :
        LET r == analyze_step(answer) IN
        /\ calls' = <<Call("llm.invoke", <<state.query, state.companies>>, 0,
                         answer)>>
        /\ IF r.raised
           THEN /\ Raised("CompletionError")
                /\ events' = Append(events, Entered(node))
           ELSE /\ Returns(r.delta)
                /\ events' = events \o <<Entered(node), Merged(node, r.delta)>>
    /\ UNCHANGED <<extract_locals, research_locals>>

\* return ResearchState(**final_state)
Return ==
    /\ UNCHANGED <<query, environ, service>>
    /\ pc = "return"
    /\ returned' = ResearchState(state)
    /\ pc' = "done"
    /\ UNCHANGED <<node, state, extract_locals, research_locals, error, calls,
                   events>>

Next ==
    \/ \E value \in EnvValues : Construct(value)
    \/ \E q \in Queries : Run(q)
    \/ ExtractSearch
    \/ ExtractScrape
    \/ ExtractComplete
    \/ ResearchTake
    \/ ResearchFallback
    \/ ToolSearch
    \/ ToolScrape
    \/ ToolAnalyze
    \/ ResearchReturn
    \/ AnalyzeStep
    \/ Return

Spec == Init /\ [][Next]_vars

(***************************************************************************)
(* Reading the history.                                                    *)
(***************************************************************************)
Running == pc \notin {"idle", "raised", "done"}

\* calls holds the calls of the research node: from its first step until the
\* first step of analyze
ResearchCalls ==
    \/ node = "research" /\ pc # "research_start"
    \/ pc = "analyze_llm"

\* the site searches of the per-tool loop among calls
SiteSearches ==
    {k \in 1..Len(calls) :
        calls[k].fn = "search_companies" /\ calls[k].tool >= 1}

NoHit(c) == ~c.ok \/ c.hits = 0

SiteHits == {k \in SiteSearches : ~NoHit(calls[k])}

\* the records appended so far by the research node
Appended == IF node = "research" THEN companies ELSE state.companies

\* the calls after which the loop appends a record
Appends ==
    {k \in 1..Len(calls) :
        \/ calls[k].fn = "structured_llm.invoke"
        \/ calls[k].fn = "scrape_company_pages" /\ ~calls[k].ok}

\* the position in companies of the record appended after call k
RecordOf(k) == Cardinality({j \in Appends : j <= k})

(***************************************************************************)
(* C1: whatever the searches, the scrapes, the discovery completion and    *)
(* the per-tool extraction answer, no failure of theirs aborts the run:    *)
(* only the synthesis completion can make run raise, and a run that        *)
(* returns has its recommendation.                                         *)
(***************************************************************************)
C1_OnlySynthesisAborts ==
    /\ pc = "raised" => node = "analyze"
    /\ pc = "done" => returned.analysis # None

(***************************************************************************)
(* C2: when the article search of the Discovery stage fails, the stage     *)
(* does not raise: it returns the delta extracted_tools = [] and the       *)
(* research node is entered with an empty candidate list.                  *)
(***************************************************************************)
DiscoverySearchFailed ==
    /\ calls # <<>>
    /\ calls[1].node = "extract_tools"
    /\ calls[1].fn = "search_companies"
    /\ ~calls[1].ok

C2_FailedSearchYieldsEmptyCandidates ==
    DiscoverySearchFailed =>
        /\ pc # "raised"
        /\ pc = "research_start" => state.extracted_tools = <<>>

(***************************************************************************)
(* C3: every Company Record of a returned state has a pricing_model that   *)
(* is one of Free, Freemium, Paid, Enterprise, Unknown.                    *)
(***************************************************************************)
C3_PricingModelIsATag ==
    pc = "done" =>
        \A k \in 1..Len(returned.companies) :
            returned.companies[k].pricing_model \in PricingTags

(***************************************************************************)
(* C4: when the synthesis completion fails, run raises and returns no      *)
(* state: no default recommendation, no second completion call, and no     *)
(* returned state lacks its recommendation.                                *)
(***************************************************************************)
SynthesisFailed ==
    /\ calls # <<>>
    /\ calls[1].node = "analyze"
    /\ ~calls[1].ok

C4_SynthesisFailureIsFatal ==
    /\ SynthesisFailed =>
        /\ pc = "raised"
        /\ error = "CompletionError"
        /\ returned = PyNone
        /\ state.analysis = None
        /\ Len(calls) = 1
    /\ returned # PyNone => returned.analysis # None

C4_Witness == SynthesisFailed /\ pc = "raised" /\ Len(state.companies) >= 2

(***************************************************************************)
(* C5: a tool whose site search yields no hit, by an error or by zero      *)
(* hits, gets no record, does not make Enrichment raise, and the loop      *)
(* goes on: the records appended are those of the tools with a hit.        *)
(***************************************************************************)
C5_NoHitSkipsTheTool ==
    ResearchCalls =>
        /\ \A k \in SiteSearches :
            NoHit(calls[k]) => ~(pc = "raised" /\ k = Len(calls))
        /\ pc \in {"tool_loop", "analyze_llm"} =>
            Len(Appended) = Cardinality(SiteHits)

(***************************************************************************)
(* C6: Enrichment researches at most 4 tool names, whatever the length of  *)
(* the candidate list, and the records it returns number at most           *)
(* min(4, number of tool names whose site search had a hit).               *)
(***************************************************************************)
C6_AtMostFourTools ==
    /\ node = "research" => Len(tool_names) <= 4
    /\ ResearchCalls =>
        /\ Cardinality(SiteSearches) <= 4
        /\ Len(Appended) <= Min(4, Cardinality(SiteHits))

C6_Witness ==
    /\ pc = "analyze_llm"
    /\ Len(state.extracted_tools) > 4
    /\ Len(state.companies) = 4

(***************************************************************************)
(* C7: when the page scrape succeeded and the structured extraction        *)
(* failed, the record appended for the tool has the description "Failed",  *)
(* pricing_model Unknown, both tri-states unknown and its three lists      *)
(* empty; the extraction never raises and every record appended after it   *)
(* has a pricing model.                                                    *)
(***************************************************************************)
Extractions ==
    {k \in 1..Len(calls) : calls[k].fn = "structured_llm.invoke"}

IsFailureRecord(r) ==
    /\ r.description = "Failed"
    /\ r.pricing_model = "Unknown"
    /\ r.is_open_source = None
    /\ r.api_available = None
    /\ r.tech_stack = <<>>
    /\ r.language_support = <<>>
    /\ r.integration_capabilities = <<>>

C7_FailedExtractionYieldsDefaults ==
    ResearchCalls =>
        /\ \A k \in Extractions :
            /\ RecordOf(k) <= Len(Appended)
            /\ Appended[RecordOf(k)].pricing_model # None
            /\ ~calls[k].ok => IsFailureRecord(Appended[RecordOf(k)])
        /\ pc = "raised" => Len(calls) \notin Extractions

C7_Witness ==
    /\ pc = "analyze_llm"
    /\ \E k \in Extractions :
        ~calls[k].ok /\ IsFailureRecord(state.companies[RecordOf(k)])

(***************************************************************************)
(* C8: Enrichment issues the direct-search fallback, one search of the     *)
(* original query for 4 results with the names taken from the hits'        *)
(* titles, if and only if the candidate list is empty; otherwise it issues *)
(* no such search and researches the first min(4, n) candidates in order.  *)
(***************************************************************************)
FallbackCalls ==
    {k \in 1..Len(calls) :
        calls[k].fn = "search_companies" /\ calls[k].tool = 0}

TitleOrUnknown(hit) ==
    IF "metadata" \in DOMAIN hit /\ "title" \in DOMAIN hit.metadata
    THEN hit.metadata.title
    ELSE "Unknown"

C8_FallbackIffNoCandidates ==
    ResearchCalls =>
        /\ FallbackCalls # {} <=> state.extracted_tools = <<>>
        /\ FallbackCalls # {} =>
            /\ FallbackCalls = {1}
            /\ calls[1].arg = state.query
            /\ calls[1].limit = 4
            /\ node = "research" /\ HasData(search_results) =>
                /\ Len(tool_names) = Len(search_results.data)
                /\ \A j \in 1..Len(tool_names) :
                    tool_names[j] = TitleOrUnknown(search_results.data[j])
        /\ FallbackCalls = {} /\ node = "research" =>
            /\ Len(tool_names) = Min(4, Len(state.extracted_tools))
            /\ \A j \in 1..Len(tool_names) :
                tool_names[j] = state.extracted_tools[j]

C8_Witness ==
    /\ pc = "tool_loop"
    /\ FallbackCalls = {1}
    /\ Len(tool_names) = 4
    /\ tool_names[1] = "Unknown"
    /\ tool_names[2] # "Unknown"

(***************************************************************************)
(* C9: a run that returns, returns the query it was given, the empty       *)
(* string included; the state's query is the input throughout and no       *)
(* delta has the key query.                                                *)
(***************************************************************************)
C9_QueryIsEchoed ==
    /\ pc = "done" => returned.query = query
    /\ pc # "idle" => state.query = query
    /\ \A k \in 1..Len(events) : "query" \notin DOMAIN events[k].delta

C9_Witness ==
    /\ pc = "done"
    /\ query = ""
    /\ returned.query = ""
    /\ Len(returned.companies) >= 1

(***************************************************************************)
(* C10: the nodes run in the order extract_tools, research, analyze, each  *)
(* at most once and each exactly once in a run that returns; research is   *)
(* entered only after the delta of extract_tools was merged, analyze only  *)
(* after the delta of research was merged, and nothing runs after run has  *)
(* returned.                                                               *)
(***************************************************************************)
StageSequence ==
    << <<"enter", "extract_tools">>, <<"merge", "extract_tools">>,
       <<"enter", "research">>, <<"merge", "research">>,
       <<"enter", "analyze">>, <<"merge", "analyze">> >>

EventKinds == [k \in 1..Len(events) |-> <<events[k].ev, events[k].node>>]

StageOrder ==
    /\ Len(events) <= Len(StageSequence)
    /\ EventKinds = SubSeq(StageSequence, 1, Len(events))
    /\ node = "extract_tools" => Len(events) <= 1
    /\ node = "research" => Len(events) \in {2, 3}
    /\ node = "analyze" => Len(events) \in {4, 5}
    /\ pc \in {"return", "done"} => EventKinds = StageSequence

C10_StagesRunInOrder == []StageOrder /\ [][pc # "done"]_vars

C10_Witness == pc = "done" /\ EventKinds = StageSequence

(***************************************************************************)
(* C11: the context blob Discovery passes to the completion is the         *)
(* concatenation, in hit order, of the first 1500 characters of every page *)
(* that was scraped successfully, and it is empty only when no page was.   *)
(***************************************************************************)
GoodScrapes ==
    {k \in 1..Len(calls) : calls[k].fn = "scrape_company_pages" /\ calls[k].ok}

RECURSIVE PrefixesUpTo(_)
PrefixesUpTo(k) ==
    IF k = 0 THEN <<>>
    ELSE PrefixesUpTo(k - 1) \o
         (IF k \in GoodScrapes
          THEN SubSeq(PageText(calls[k].arg), 1,
                      Min(1500, Len(PageText(calls[k].arg))))
          ELSE <<>>)

C11_BlobIsThePagePrefixes ==
    pc = "extract_llm" =>
        /\ all_content = PrefixesUpTo(Len(calls))
        /\ all_content = <<>> => GoodScrapes = {}

(***************************************************************************)
(* C12: when the candidate list is empty and the fallback search fails or  *)
(* has no hits, Enrichment does not raise: it returns companies = [] and   *)
(* the run goes on to the analyze node.                                    *)
(***************************************************************************)
FallbackFoundNothing ==
    /\ ResearchCalls
    /\ FallbackCalls # {}
    /\ NoHit(calls[1])

C12_EmptyFallbackYieldsNoCompanies ==
    FallbackFoundNothing =>
        /\ pc # "raised"
        /\ node = "research" => tool_names = <<>> /\ companies = <<>>
        /\ pc = "analyze_llm" => state.companies = <<>>

(***************************************************************************)
(* C13: a node's delta has the one key the node owns (extract_tools:       *)
(* extracted_tools, research: companies, analyze: analysis); a step        *)
(* changes a field of the state only when the owning node returns, so the  *)
(* query and the fields of earlier nodes stay as they were; and a record   *)
(* appended to companies is never changed afterwards.                      *)
(***************************************************************************)
Owned(n) ==
    CASE n = "extract_tools" -> "extracted_tools"
      [] n = "research" -> "companies"
      [] n = "analyze" -> "analysis"

DeltasAreOwned ==
    \A k \in 1..Len(events) :
        events[k].ev = "merge" =>
            DOMAIN events[k].delta = {Owned(events[k].node)}

IsPrefixOf(a, b) == Len(a) <= Len(b) /\ SubSeq(b, 1, Len(a)) = a

FrameStep ==
    pc # "idle" =>
        /\ state'.query = state.query
        /\ state'.search_results = state.search_results
        /\ state'.extracted_tools # state.extracted_tools =>
            node = "extract_tools"
        /\ state'.companies # state.companies =>
            node = "research" /\ state'.companies = companies
        /\ state'.analysis # state.analysis => node = "analyze"
        /\ node = "research" /\ node' = "research" /\ pc # "research_start" =>
            IsPrefixOf(companies, companies')
        /\ pc' = "done" => returned'.companies = state.companies

C13_DeltasWriteOwnedFieldsOnly == []DeltasAreOwned /\ [][FrameStep]_vars

C13_Witness ==
    /\ pc = "done"
    /\ Len(returned.extracted_tools) >= 2
    /\ Len(returned.companies) >= 2
    /\ returned.analysis # None

(***************************************************************************)
(* C14: the names of the records of companies are a subsequence of the     *)
(* bounded list of tool names (same order, skipped tools left out,         *)
(* nothing added), and each record is named after the tool it was built    *)
(* for, whatever the hit, the scrape and the extraction returned.          *)
(***************************************************************************)
\* the bounded list of tool names, read from the state and the history
BoundedNames ==
    IF FallbackCalls # {}
    THEN [j \in 1..Len(calls[1].data) |-> TitleOrUnknown(calls[1].data[j])]
    ELSE SubSeq(state.extracted_tools, 1, Min(4, Len(state.extracted_tools)))

\* the call after which the r-th record was appended
AppendCall(r) == CHOOSE k \in Appends : RecordOf(k) = r

NamesAreASubsequence ==
    /\ Len(Appended) = Cardinality(Appends)
    /\ \A r \in 1..Len(Appended) :
        /\ calls[AppendCall(r)].tool \in 1..Len(BoundedNames)
        /\ Appended[r].name = BoundedNames[calls[AppendCall(r)].tool]
    /\ \A r1, r2 \in 1..Len(Appended) :
        r1 < r2 => calls[AppendCall(r1)].tool < calls[AppendCall(r2)].tool

C14_NamesFollowTheToolNames == ResearchCalls => NamesAreASubsequence

C14_Witness ==
    /\ pc = "analyze_llm"
    /\ Len(BoundedNames) = 4
    /\ Len(state.companies) = 2
    /\ state.companies[1].name = BoundedNames[2]
    /\ state.companies[2].name = BoundedNames[4]
    /\ state.companies[1].description = "a tool"

(***************************************************************************)
(* C15: when a tool's site search has a hit and the scrape of its page     *)
(* fails, exactly one record is appended for the tool, with the            *)
(* description and the website of the hit and the declared default in      *)
(* every analytic field, and no structured extraction is called for the    *)
(* tool.                                                                   *)
(***************************************************************************)
FailedScrapes ==
    {k \in 1..Len(calls) : calls[k].fn = "scrape_company_pages" /\ ~calls[k].ok}

IsBaseRecordOf(r, hit) ==
    /\ r.description = (IF "markdown" \in DOMAIN hit THEN hit.markdown ELSE "")
    /\ r.website = (IF "url" \in DOMAIN hit THEN hit.url ELSE "")
    /\ r.pricing_model = None
    /\ r.is_open_source = None
    /\ r.api_available = None
    /\ r.tech_stack = <<>>
    /\ r.language_support = <<>>
    /\ r.integration_capabilities = <<>>

C15_FailedScrapeKeepsTheBaseRecord ==
    ResearchCalls =>
        \A k \in FailedScrapes :
            /\ k > 1
            /\ calls[k - 1].fn = "search_companies"
            /\ calls[k - 1].tool = calls[k].tool
            /\ calls[k - 1].hits >= 1
            /\ RecordOf(k) <= Len(Appended)
            /\ IsBaseRecordOf(Appended[RecordOf(k)], calls[k - 1].data[1])
            /\ Cardinality({j \in Appends : calls[j].tool = calls[k].tool}) = 1
            /\ \A j \in Extractions : calls[j].tool # calls[k].tool

C15_Witness ==
    /\ pc = "analyze_llm"
    /\ Len(state.companies) >= 2
    /\ \E k \in FailedScrapes :
        /\ state.companies[RecordOf(k)].description = "hit 1"
        /\ state.companies[RecordOf(k)].website = "https://site1"

(***************************************************************************)
(* C16: in Enrichment the calls of one tool are the site search, then the  *)
(* page scrape, then the structured extraction, each at most once; the     *)
(* scrape follows a search with a hit, the extraction a scrape that        *)
(* succeeded, and the calls of a tool are over before the next tool's      *)
(* search is issued.                                                       *)
(***************************************************************************)
ToolCalls == {k \in 1..Len(calls) : calls[k].tool >= 1}

\* call k is the last one the loop makes for its tool
EndsItsTool(k) ==
    \/ calls[k].fn = "search_companies" /\ NoHit(calls[k])
    \/ calls[k].fn = "scrape_company_pages" /\ ~calls[k].ok
    \/ calls[k].fn = "structured_llm.invoke"

CallsInToolOrder ==
    /\ \A k \in 1..(Len(calls) - 1) : calls[k].tool <= calls[k + 1].tool
    /\ \A j, k \in ToolCalls :
        j < k /\ calls[j].tool = calls[k].tool => calls[j].fn # calls[k].fn
    /\ \A k \in ToolCalls :
        CASE calls[k].fn = "search_companies" ->
                k = 1 \/ calls[k - 1].tool = 0
                      \/ /\ calls[k - 1].tool = calls[k].tool - 1
                         /\ EndsItsTool(k - 1)
          [] calls[k].fn = "scrape_company_pages" ->
                /\ k > 1
                /\ calls[k - 1].tool = calls[k].tool
                /\ calls[k - 1].fn = "search_companies"
                /\ ~NoHit(calls[k - 1])
          [] calls[k].fn = "structured_llm.invoke" ->
                /\ k > 1
                /\ calls[k - 1].tool = calls[k].tool
                /\ calls[k - 1].fn = "scrape_company_pages"
                /\ calls[k - 1].ok
          [] OTHER -> FALSE

C16_CallsOfAToolAreSequential == ResearchCalls => CallsInToolOrder

C16_Witness ==
    /\ pc = "analyze_llm"
    /\ Len(calls) = 7
    /\ calls[3].fn = "structured_llm.invoke" /\ calls[3].tool = 1
    /\ calls[5].fn = "scrape_company_pages" /\ calls[5].tool = 2
    /\ calls[7].fn = "search_companies" /\ calls[7].tool = 3

(***************************************************************************)
(* C17: until the delta of the analyze node is merged the state's analysis *)
(* is None, and extracted_tools and companies are lists at every moment of *)
(* a run; analysis is set by the step that merges that delta and by no     *)
(* other.                                                                  *)
(***************************************************************************)
IsList(v) == DOMAIN v = 1..Len(v)

AbsentUntilSynthesis ==
    pc # "idle" =>
        /\ node # "END" <=> state.analysis = None
        /\ state.extracted_tools \in Seq(STRING)
        /\ IsList(state.companies)

SetBySynthesisOnly ==
    pc # "idle" /\ state.analysis = None /\ state'.analysis # None =>
        /\ node = "analyze" /\ node' = "END"
        /\ events'[Len(events')].ev = "merge"
        /\ events'[Len(events')].node = "analyze"
        /\ events'[Len(events')].delta.analysis = state'.analysis

C17_AnalysisAbsentUntilSynthesis ==
    []AbsentUntilSynthesis /\ [][SetBySynthesisOnly]_vars

C17_Witness ==
    /\ pc = "return"
    /\ state.analysis = "use the first one"
    /\ Len(state.companies) >= 1

(***************************************************************************)
(* C18: FirecrawlService() succeeds when FIRECRAWL_API_KEY is set to a     *)
(* non-empty value and raises ValueError when it is unset or empty; so     *)
(* Workflow() succeeds whenever the key is set.                            *)
(***************************************************************************)
C18_ConstructionFollowsTheKey ==
    service # "given" =>
        /\ environ \notin {None, ""} => service = "constructed"
        /\ environ \in {None, ""} => service = "ValueError"

====
